---- MODULE Spec2Model ----
(***************************************************************************)
(* Model of the interview simulator's audio core:                          *)
(*   - useAudioPlayer        (src/hooks/useAudioProcessor.ts, 83-177)      *)
(*   - GeminiLiveService     (src/services/geminiLive.ts)                  *)
(*   - the callbacks App.startInterview hands to connect()                 *)
(*                           (src/unnamed/part_001)                        *)
(*   - useAudioProcessor     (src/hooks/useAudioProcessor.ts, 4-80)        *)
(*   - float32ToInt16, arrayBufferToBase64 and the decoding in play()      *)
(* Time is counted in ticks of 100 ms; a chunk is identified with the      *)
(* duration of the buffer play() builds from it (samples / sampleRate).    *)
(***************************************************************************)
EXTENDS Integers, Sequences, FiniteSets, TLC

VARIABLES
    player,     \* useAudioPlayer: audioContextRef, nextStartTimeRef, sourceNodesRef, isPlaying
    now,        \* audioContext.currentTime, in ticks
    raised,     \* the operation of the last step, when it raised to its caller; else "none"
    app,        \* App: isNewTurnRef, currentQuestion, React's queued state updates, the wiring
    inbound,    \* the message the last step's onmessage handled, and the callbacks it fired
    service,    \* GeminiLiveService: sessionPromise, its channels, the sendAudioChunk calls
    capture,    \* useAudioProcessor: its props, its four refs, the graph they hold
    codec       \* the last frame or buffer put through float32ToInt16, arrayBufferToBase64, atob

vars == <<player, now, raised, app, inbound, service, capture, codec>>

\* ---------------------------------------------------------------- bounds

\* Most AudioBufferSourceNodes ever created in one behaviour.
MaxChunks == 3

\* The device clock stops advancing here.
MaxNow == 4

\* The same two bounds for the interview, where the transcript multiplies the states.
MaxInterviewChunks == 2
MaxInterviewNow == 2

\* Most connect() calls on one service instance, most sendAudioChunk calls.
MaxConnects == 2
MaxCalls == 3

\* The same two bounds where the channels' events multiply the states, and the
\* most onerror events on one channel.
MaxChannelConnects == 1
MaxChannelCalls == 1
MaxErrors == 1

\* Most frames one capture graph delivers.
MaxFrames == 2

\* Longest byte buffer handed to arrayBufferToBase64, longest frame of samples
\* handed to float32ToInt16.
MaxBytes == 4
MaxSamples == 2

\* Most transcript fragments displayed or queued for display at a time.
MaxQuestion == 1

\* Most chunks played between the start and the end of an interview.
MaxLifecycleChunks == 2

\* The same bound, and the most fragments in one turn, for the transcript on
\* its own.
MaxTranscript == 2

\* Buffer durations, in ticks, of the chunks handed to play(); 0 is the empty chunk.
Durations == {0, 1, 2}

\* Transcript deltas a message can carry.
Fragments == {"a"}

\* A part of a modelTurn: 0 is a part without inlineData (a text part), d > 0 an
\* inline audio payload decoding to a buffer of d ticks. parts = <<>> is a
\* message without modelTurn (or with no parts).
PartLists == {<<>>, <<1>>, <<0, 1>>}

\* LiveServerMessage.serverContent, as far as onmessage reads it.
Messages ==
    [ text         : {"none"} \cup Fragments,
      turnComplete : BOOLEAN,
      interrupted  : BOOLEAN,
      parts        : PartLists ]

\* ---------------------------------------------------------------- helpers

Range(s) == {s[i] : i \in DOMAIN s}

Max(a, b) == IF a >= b THEN a ELSE b

\* Array.prototype.filter(s => s !== id)
RECURSIVE FilterOut(_, _)
FilterOut(s, id) ==
    IF s = <<>> THEN <<>>
    ELSE IF Head(s) = id THEN FilterOut(Tail(s), id)
         ELSE <<Head(s)>> \o FilterOut(Tail(s), id)

\* ---------------------------------------------------------------- useAudioPlayer

\* useRef(null), useRef(0), useRef([]), useState(false). `sources` holds the
\* AudioBufferSourceNodes whose `ended` event has not fired yet (the device's
\* side of the nodes), by creation number; `created` counts the nodes created;
\* `lastEnd` is the nominal end of the chunk scheduled last, -1 when there is
\* none or stop() ran since.
PlayerInitial ==
    [ audioContext  |-> "none",
      nextStartTime |-> 0,
      sourceNodes   |-> <<>>,
      isPlaying     |-> FALSE,
      sources       |-> <<>>,
      created       |-> 0,
      lastEnd       |-> -1 ]

\* init(): create the context unless it exists.
PlayerInit(p) ==
    IF p.audioContext = "none" THEN [p EXCEPT !.audioContext = "running"] ELSE p

\* "If we fell behind, reset the clock to now": the time handed to source.start().
StartTimeAlwaysNow(cursor, currentTime) == currentTime
StartTimeNeverSnap(cursor, currentTime) == cursor
StartTime(cursor, currentTime) ==
    IF cursor < currentTime THEN currentTime ELSE cursor

\* createBuffer(1, length, sampleRate) raises NotSupportedError for length 0.
PlayRaises(p, duration) == p.audioContext # "none" /\ duration = 0

\* play(): schedule one buffer of the given duration at device time currentTime.
PlayerPlay(p, currentTime, duration) ==
    IF p.audioContext = "none" \/ PlayRaises(p, duration) THEN p
    ELSE LET start == StartTime(p.nextStartTime, currentTime)
             id    == p.created + 1
             node  == [ start    |-> start,
                        duration |-> duration,
                        cont     |-> p.lastEnd >= 0,
                        halted   |-> FALSE ]
         IN [p EXCEPT !.nextStartTime = start + duration,
                      !.sourceNodes   = Append(@, id),
                      !.sources       = (id :> node) @@ @,
                      !.created       = id,
                      !.isPlaying     = TRUE,
                      !.lastEnd       = start + duration]

\* node.stop() may raise on a unit that already played out (legacy engines raise
\* InvalidStateError there); `legacy` is the engine's choice.
HaltRaises(p, currentTime, legacy, id) ==
    legacy /\ currentTime >= p.sources[id].start + p.sources[id].duration

\* The units stop() halts: forEach with try/catch visits every tracked node.
HaltedByStop(p, currentTime, legacy) == Range(p.sourceNodes)

\* Whether stop() raises to its caller: the catch block swallows every error.
StopRaisesUncaught(p, currentTime, legacy) ==
    \E id \in Range(p.sourceNodes) : HaltRaises(p, currentTime, legacy, id)
StopRaises(p, currentTime, legacy) == FALSE

\* The cursor after stop().
CursorAfterStopZero(p, currentTime) == 0
CursorAfterStop(p, currentTime) ==
    IF p.audioContext # "none" THEN currentTime ELSE p.nextStartTime

\* The device's nodes after stop() halted those it reached.
HaltAll(p, currentTime, legacy) ==
    [i \in DOMAIN p.sources |->
        IF i \in HaltedByStop(p, currentTime, legacy)
        THEN [p.sources[i] EXCEPT !.halted = TRUE] ELSE p.sources[i]]

\* stop(): halt every tracked node, clear tracking, reset the cursor.
PlayerStop(p, currentTime, legacy) ==
    IF StopRaises(p, currentTime, legacy)
    THEN [p EXCEPT !.sources = HaltAll(p, currentTime, legacy)]
    ELSE [p EXCEPT !.sources       = HaltAll(p, currentTime, legacy),
                   !.sourceNodes   = <<>>,
                   !.nextStartTime = CursorAfterStop(p, currentTime),
                   !.isPlaying     = FALSE,
                   !.lastEnd       = -1]

\* The device fires `ended` once per node: when it played out, or after stop().
CanEnd(p, currentTime, id) ==
    /\ id \in DOMAIN p.sources
    /\ \/ p.sources[id].halted
       \/ currentTime >= p.sources[id].start + p.sources[id].duration

\* The flag after onended left `left` tracked: setIsPlaying(false) when none is.
FlagAfterEndedKeep(flag, left) == flag
FlagAfterEnded(flag, left) == IF Len(left) = 0 THEN FALSE ELSE flag

\* source.onended: untrack the node; playback is inactive when none is left.
PlayerOnEnded(p, id) ==
    LET left == FilterOut(p.sourceNodes, id)
    IN [p EXCEPT !.sourceNodes = left,
                 !.sources     = [i \in DOMAIN @ \ {id} |-> @[i]],
                 !.isPlaying   = FlagAfterEnded(@, left)]

\* ---------------------------------------------------------------- App

\* useState("Waiting for interview to start..."), useRef(true); `updates` are
\* the setCurrentQuestion calls React has queued and not yet applied; `started`
\* says startInterview ran, `wired` that connect() was given the callbacks;
\* `turn` are the fragments onTranscription received since the last onTurnEnd.
\* `phase`, `isConnected` and `audioStream` (0 for null) are App's state;
\* `closureStream` is the audioStream inside the running startInterview, `step`
\* the await it has reached, `endedAt` the step it was at when endInterview ran.
\* `liveStreams` are the acquired streams whose tracks are not stopped,
\* `canvasStream` says canvasStreamRef holds a stream, `recording` is the state
\* of the MediaRecorder.
AppInitial ==
    [ isNewTurn       |-> TRUE,
      currentQuestion |-> <<"Waiting">>,
      updates         |-> <<>>,
      turn            |-> <<>>,
      phase           |-> "setup",
      isConnected     |-> FALSE,
      audioStream     |-> 0,
      closureStream   |-> 0,
      step            |-> "idle",
      endedAt         |-> "none",
      liveStreams     |-> {},
      canvasStream    |-> FALSE,
      recording       |-> "none",
      started         |-> FALSE,
      wired           |-> FALSE ]

\* One queued setCurrentQuestion: a plain value, or the fragment updater
\* prev => isNewTurnRef.current ? text : prev + text.
ApplyUpdate(a, u) ==
    IF u.kind = "set" THEN [a EXCEPT !.currentQuestion = <<u.text>>]
    ELSE IF a.isNewTurn
         THEN [a EXCEPT !.isNewTurn = FALSE, !.currentQuestion = <<u.text>>]
         ELSE [a EXCEPT !.currentQuestion = Append(@, u.text)]

RECURSIVE ApplyUpdates(_, _)
ApplyUpdates(a, us) ==
    IF us = <<>> THEN a ELSE ApplyUpdates(ApplyUpdate(a, Head(us)), Tail(us))

\* React applies the queued updates, in order, when it renders.
AppRender(a) == [ApplyUpdates(a, a.updates) EXCEPT !.updates = <<>>]

\* setCurrentQuestion(u): React runs the update at once when nothing is queued
\* on the component (`eager`), otherwise at the next render.
SetCurrentQuestion(a, u, eager) ==
    IF eager /\ a.updates = <<>> THEN ApplyUpdate(a, u)
    ELSE [a EXCEPT !.updates = Append(@, u)]

\* The program state the callbacks act on.
State(p, a) == [player |-> p, app |-> a]

\* connect()'s first callback: the transcript fragment.
OnTranscription(s, text, eager) ==
    [s EXCEPT !.app = [SetCurrentQuestion(@, [kind |-> "fragment", text |-> text], eager)
                          EXCEPT !.turn = Append(@, text)]]

\* connect()'s fourth callback: turn complete or interrupted.
OnTurnEndKeepPlaying(s, currentTime, legacy) ==
    [s EXCEPT !.app.isNewTurn = TRUE, !.app.turn = <<>>]
OnTurnEnd(s, currentTime, legacy) ==
    [s EXCEPT !.app.isNewTurn = TRUE,
              !.app.turn = <<>>,
              !.player = PlayerStop(@, currentTime, legacy)]

\* handleAiAudio: connect()'s second callback.
HandleAiAudio(s, currentTime, duration) ==
    [s EXCEPT !.player = PlayerPlay(@, currentTime, duration)]

\* startRecording(stream): nothing without a canvas stream, else a
\* MediaRecorder is made and started.
StartRecording(a) ==
    IF a.canvasStream THEN [a EXCEPT !.recording = "recording"] ELSE a

\* stopRecording(): stops a recorder that is not inactive.
StopRecording(a) ==
    IF a.recording = "recording" THEN [a EXCEPT !.recording = "stopped"] ELSE a

\* getTracks().forEach(t => t.stop()) on the stream `held`, setAudioStream(null).
ReleaseStream(a, held) ==
    IF held = 0 THEN a
    ELSE [a EXCEPT !.liveStreams = @ \ {held}, !.audioStream = 0]

\* The catch of startInterview: the failure text, then the cleanup guarded by
\* the audioStream of the render startInterview was made in.
StartFailed(a) ==
    [ReleaseStream(AppRender(SetCurrentQuestion(a, [kind |-> "set", text |-> "Failed"], FALSE)),
                   a.closureStream)
        EXCEPT !.step = "failed"]

\* startInterview after getUserMedia resolved: setAudioStream(stream), then the
\* call of connect() with the callbacks.
StreamAcquired(a, stream) ==
    [a EXCEPT !.audioStream = stream,
              !.liveStreams = @ \cup {stream},
              !.wired = TRUE,
              !.step = "connect"]

\* startInterview after connect() resolved: setIsConnected(true), the
\* greeting, startRecording(stream).
ConnectSucceeded(a) ==
    [StartRecording(AppRender(SetCurrentQuestion(a, [kind |-> "set", text |-> "Hello"], FALSE)))
        EXCEPT !.isConnected = TRUE, !.step = "done"]

\* connect()'s third callback, onError: the error text.
OnError(a) ==
    AppRender(SetCurrentQuestion(a, [kind |-> "set", text |-> "Connection Error"], FALSE))

\* endInterview, App's part: stopRecording(), the tracks of the audioStream of
\* the latest render are stopped, setAudioStream(null), setIsConnected(false),
\* setPhase('review').
AppEnd(a) ==
    [ReleaseStream(StopRecording(a), a.audioStream)
        EXCEPT !.isConnected = FALSE, !.phase = "review", !.endedAt = a.step]

\* ---------------------------------------------------------------- GeminiLiveService.onmessage

\* message.serverContent?.outputTranscription?.text, "none" when absent.
OutputTx(m) == m.text

\* How often one message invokes onTurnEnd.
TurnEndCallsPerFlag(m) ==
    (IF m.turnComplete THEN 1 ELSE 0) + (IF m.interrupted THEN 1 ELSE 0)
TurnEndCalls(m) == IF m.turnComplete \/ m.interrupted THEN 1 ELSE 0

\* message.serverContent?.modelTurn?.parts?.[0]?.inlineData?.data, 0 when absent.
AudioData(m) == IF Len(m.parts) >= 1 THEN m.parts[1] ELSE 0

\* The order in which onmessage looks at the three signals.
CallbackOrder == <<"onTranscription", "onTurnEnd", "onAudioData">>

\* How often the message invokes the named callback.
Calls(m, cb) ==
    CASE cb = "onTranscription" -> IF OutputTx(m) # "none" THEN 1 ELSE 0
      [] cb = "onTurnEnd"       -> TurnEndCalls(m)
      [] cb = "onAudioData"     -> IF AudioData(m) # 0 THEN 1 ELSE 0

\* One invocation of the named callback, as App wired it.
Invoke(s, currentTime, m, cb, eager, legacy) ==
    CASE cb = "onTranscription" -> OnTranscription(s, OutputTx(m), eager)
      [] cb = "onTurnEnd"       -> OnTurnEnd(s, currentTime, legacy)
      [] cb = "onAudioData"     -> HandleAiAudio(s, currentTime, AudioData(m))

\* Where a scheduled unit is in its life at device time currentTime.
Phase(node, currentTime) ==
    IF currentTime < node.start THEN "pending"
    ELSE IF currentTime < node.start + node.duration THEN "playing"
    ELSE "finished"

\* What onTurnEnd did, running in state s0 and leaving state s: the scheduler
\* and the turn mark it left, the tracked units it failed to halt, the phases
\* of those it halted, and the turn mark it found.
Snapshot(s0, s, currentTime) ==
    LET tracked == Range(s0.player.sourceNodes)
    IN [ sourceNodes   |-> s.player.sourceNodes,
         isPlaying     |-> s.player.isPlaying,
         nextStartTime |-> s.player.nextStartTime,
         isNewTurn     |-> s.app.isNewTurn,
         missed        |-> {i \in tracked : ~s.player.sources[i].halted},
         halted        |-> {Phase(s.player.sources[i], currentTime) :
                              i \in {j \in tracked : s.player.sources[j].halted}},
         wasNewTurn    |-> s0.app.isNewTurn ]

\* The run of onmessage: r.state is the program state, r.fired the callbacks
\* invoked so far, r.left the snapshot after the last onTurnEnd ("none": none).
RECURSIVE Dispatch(_, _, _, _, _, _, _)
Dispatch(r, currentTime, m, order, n, eager, legacy) ==
    IF order = <<>> THEN r
    ELSE IF n = 0
         THEN Dispatch(r, currentTime, m, Tail(order),
                       IF Len(order) > 1 THEN Calls(m, order[2]) ELSE 0, eager, legacy)
         ELSE LET cb == Head(order)
                  s2 == Invoke(r.state, currentTime, m, cb, eager, legacy)
              IN Dispatch([ state |-> s2,
                            fired |-> Append(r.fired, cb),
                            left  |-> IF cb = "onTurnEnd"
                                      THEN <<Snapshot(r.state, s2, currentTime)>> ELSE r.left ],
                          currentTime, m, order, n - 1, eager, legacy)

OnMessageResult(p, a, currentTime, m, eager, legacy) ==
    Dispatch([state |-> State(p, a), fired |-> <<>>, left |-> <<>>],
             currentTime, m, CallbackOrder, Calls(m, CallbackOrder[1]), eager, legacy)

\* No message was handled in the last step.
NoInbound == [msg |-> <<>>, fired |-> <<>>, left |-> <<>>]

\* ---------------------------------------------------------------- GeminiLiveService

\* sessionPromise = null (0 here). `conns` are the promises client.live.connect
\* returned, in order, each with its channel, how the connect() call that made
\* it settled (`result`), how often its onError ran (`errors`) and whether its
\* onmessage handled an inbound message (`heard`; `heardAfterError` says one
\* came after an onerror event). `calls` are the sendAudioChunk calls, in
\* order; `wire` the calls whose frame went out on a channel, in order;
\* `released` says disconnect() ran since the last connect().
ServiceInitial ==
    [ sessionPromise |-> 0,
      conns          |-> <<>>,
      calls          |-> <<>>,
      wire           |-> <<>>,
      released       |-> FALSE ]

\* The session's state as section 4.4 names it, for the handle the service holds.
SessionState(s) ==
    IF s.sessionPromise = 0
    THEN IF s.released THEN "disconnected" ELSE "idle"
    ELSE LET c == s.conns[s.sessionPromise]
         IN CASE c.promise = "pending"  -> "connecting"
              [] c.promise = "rejected" -> "failed"
              [] c.channel = "open"     -> "open"
              [] OTHER                  -> "closed"

\* connect(): this.sessionPromise = this.client.live.connect(...).
ServiceConnect(s) ==
    [s EXCEPT !.conns = Append(@, [ promise  |-> "pending",
                                    channel  |-> "connecting",
                                    result   |-> "pending",
                                    errors   |-> 0,
                                    heard    |-> FALSE,
                                    heardAfterError |-> FALSE ]),
              !.sessionPromise = Len(s.conns) + 1,
              !.released = FALSE]

\* The remote accepts: the promise fulfils with the session, the channel is
\* open, and `return await this.sessionPromise` resolves connect().
ServiceAccept(s, c) ==
    [s EXCEPT !.conns[c].promise = "fulfilled",
              !.conns[c].channel = "open",
              !.conns[c].result  = "resolved"]

\* The remote rejects, or the channel cannot be established: the promise
\* rejects, and the catch runs onError(error) and rethrows.
ServiceRejectSilent(s, c) ==
    [s EXCEPT !.conns[c].promise = "rejected",
              !.conns[c].channel = "failed",
              !.conns[c].result  = "rejected"]
ServiceReject(s, c) ==
    [s EXCEPT !.conns[c].promise = "rejected",
              !.conns[c].channel = "failed",
              !.conns[c].errors  = @ + 1,
              !.conns[c].result  = "rejected"]

\* A channel is live while the remote end holds it open: its callbacks can
\* still fire and a session object obtained from it still carries frames.
Live(s) == {c \in DOMAIN s.conns : s.conns[c].channel = "open"}

\* onerror while the channel is open: onError(new Error(...)), nothing else.
ServiceRemoteErrorCloses(s, c) ==
    [s EXCEPT !.conns[c].errors = @ + 1, !.conns[c].channel = "closed"]
ServiceRemoteError(s, c) ==
    [s EXCEPT !.conns[c].errors = @ + 1]

\* onmessage on an open channel: the callbacks of the message fire.
ServiceInbound(s, c) ==
    [s EXCEPT !.conns[c].heard = TRUE,
              !.conns[c].heardAfterError = @ \/ s.conns[c].errors > 0]

\* The remote closes the channel (onclose).
ServiceRemoteClose(s, c) ==
    [s EXCEPT !.conns[c].channel = "closed"]

\* disconnect(): this.sessionPromise = null.
ServiceDisconnectKeepsHandle(s) ==
    [s EXCEPT !.released = TRUE]
ServiceDisconnect(s) ==
    [s EXCEPT !.sessionPromise = 0, !.released = TRUE]

\* How the promise sendAudioChunk returned settles, given whether its body
\* threw: the body is inside try/catch.
SendOutcomeUncaught(threw) == IF threw THEN "rejected" ELSE "resolved"
SendOutcome(threw) == "resolved"

\* The promise a sendAudioChunk call waits for: `if (!this.sessionPromise)
\* return`, else `await this.sessionPromise`.
AwaitedBySend(s) == s.sessionPromise

\* sendAudioChunk(), up to its await: returns at once without a session
\* promise, else waits for it. `at` is the session state the call was made in.
ServiceSend(s) ==
    LET p == AwaitedBySend(s)
    IN [s EXCEPT !.calls = Append(@,
            [ awaits  |-> p,
              at      |-> SessionState(s),
              afterError |-> p # 0 /\ s.conns[p].errors > 0 /\ s.conns[p].channel = "open",
              state   |-> IF p = 0 THEN "returned" ELSE "waiting",
              threw   |-> FALSE,
              outcome |-> IF p = 0 THEN SendOutcome(FALSE) ELSE "pending" ])]

\* The calls waiting for a promise resume in the order they began to wait.
CanResumeAnyOrder(s, k) ==
    /\ k \in DOMAIN s.calls
    /\ s.calls[k].state = "waiting"
    /\ s.conns[s.calls[k].awaits].promise # "pending"
CanResume(s, k) ==
    /\ k \in DOMAIN s.calls
    /\ s.calls[k].state = "waiting"
    /\ s.conns[s.calls[k].awaits].promise # "pending"
    /\ \A j \in 1..(k - 1) :
          ~(s.calls[j].state = "waiting" /\ s.calls[j].awaits = s.calls[k].awaits)

\* sendAudioChunk() after its await: a rejected promise throws into the catch;
\* else session.sendRealtimeInput(...) puts the frame on the channel, unless
\* the transport fails (`fails`) or the channel is no longer open.
ServiceResume(s, k, fails) ==
    LET c     == s.conns[s.calls[k].awaits]
        sent  == c.promise = "fulfilled" /\ c.channel = "open" /\ ~fails
        threw == c.promise = "rejected" \/ (c.promise = "fulfilled" /\ fails)
    IN [s EXCEPT !.calls[k].state   = "returned",
                 !.calls[k].threw   = threw,
                 !.calls[k].outcome = SendOutcome(threw),
                 !.wire = IF sent THEN Append(@, k) ELSE @]

\* ---------------------------------------------------------------- useAudioProcessor

\* The steps of start() that can throw, in the order the code takes them;
\* "none" is the start in which nothing throws.
StartSteps ==
    <<"context", "source", "processor", "connectSource", "gain", "connectProcessor", "connectGain">>

FailPoints == Range(StartSteps) \cup {"none"}

\* TRUE when start() got past `step` before the step `failAt` threw.
RECURSIVE PlaceOf(_, _)
PlaceOf(step, i) ==
    IF i > Len(StartSteps) THEN i
    ELSE IF StartSteps[i] = step THEN i ELSE PlaceOf(step, i + 1)

Done(step, failAt) == failAt = "none" \/ PlaceOf(step, 1) < PlaceOf(failAt, 1)

\* The hook after its first effect: isActive false, no stream, nothing built.
\* `stream` is 0 for null, else the identity of the MediaStream object;
\* `streamActive` is stream.active. The four refs are TRUE when they hold a
\* node; `links` are the connections made; `contexts` counts the AudioContexts
\* created and not closed. `built` is the failAt of the start() that built the
\* present graph ("idle" when none did), `frames` the onAudioData calls the
\* present graph made, `stops` what the stop() calls of the last effect found,
\* `startOutcome` how the promise of the last start() settled. `isMicOn` is
\* App's state, `handlerMicOn` the isMicOn inside the handleAudioData that the
\* onaudioprocess of the present graph calls; `lastFrame` says whether the last
\* frame was passed to sendAudioChunk, `micAtFrame` what isMicOn was then.
CaptureInitial ==
    [ isActive     |-> FALSE,
      stream       |-> 0,
      streamActive |-> FALSE,
      audioContext |-> FALSE,
      source       |-> FALSE,
      processor    |-> FALSE,
      gain         |-> FALSE,
      links        |-> {},
      contexts     |-> 0,
      built        |-> "idle",
      frames       |-> 0,
      stops        |-> <<"nothing">>,
      startOutcome |-> "none",
      isMicOn      |-> TRUE,
      handlerMicOn |-> TRUE,
      lastFrame    |-> "none",
      micAtFrame   |-> TRUE ]

\* How the promise start() returned settles when a step threw: the body is in
\* try/catch that only logs.
StartOutcome(failAt) == "resolved"

\* start(activeStream), in which the step failAt throws.
CaptureStart(c, failAt) ==
    [c EXCEPT !.audioContext = Done("context", failAt),
              !.contexts     = IF Done("context", failAt) THEN @ + 1 ELSE @,
              !.source       = Done("source", failAt),
              !.processor    = Done("processor", failAt),
              !.gain         = Done("gain", failAt),
              !.links        = {l \in {"connectSource", "connectProcessor", "connectGain"} :
                                   Done(l, failAt)},
              !.built        = failAt,
              !.frames       = 0,
              !.lastFrame    = "none",
              !.handlerMicOn = c.isMicOn,
              !.startOutcome = StartOutcome(failAt)]

\* What stop() finds in the refs.
Found(c) ==
    IF c.processor /\ c.source /\ c.gain /\ c.audioContext THEN "graph"
    ELSE IF c.processor \/ c.source \/ c.gain \/ c.audioContext THEN "partial"
    ELSE "nothing"

\* stop(): each ref that holds a node is disconnected and set to null, the
\* context is closed and its ref set to null. node.disconnect() removes the
\* node's outgoing connections.
CaptureStopIfStarted(c) ==
    IF ~c.processor THEN [c EXCEPT !.built = "idle", !.stops = Append(@, Found(c))]
    ELSE [c EXCEPT !.processor = FALSE, !.source = FALSE, !.gain = FALSE,
                   !.audioContext = FALSE, !.links = {}, !.contexts = 0,
                   !.built = "idle", !.stops = Append(@, Found(c))]
CaptureStop(c) ==
    [c EXCEPT !.processor    = FALSE,
              !.source       = FALSE,
              !.gain         = FALSE,
              !.audioContext = FALSE,
              !.links        = { l \in @ :
                                   \/ l = "connectProcessor" /\ ~c.processor
                                   \/ l = "connectSource" /\ ~c.source
                                   \/ l = "connectGain" /\ ~c.gain },
              !.contexts     = IF c.audioContext THEN @ - 1 ELSE @,
              !.built        = "idle",
              !.stops        = Append(@, Found(c))]

\* handleAudioData: if (isMicOn && geminiService.current) sendAudioChunk(base64),
\* with the isMicOn of the render that made the callback.
HandleAudioData(micOn) == IF micOn THEN "sent" ELSE "dropped"

\* The condition of the effect: isActive && stream && stream.active.
Armed(c) == c.isActive /\ c.stream # 0 /\ c.streamActive

\* The effect on [isActive, stream]: the cleanup of the previous effect runs
\* stop(), then start(stream) when armed, else stop().
CaptureEffect(c, failAt) ==
    LET cleaned == CaptureStop([c EXCEPT !.stops = <<>>])
    IN IF Armed(c) THEN CaptureStart(cleaned, failAt) ELSE CaptureStop(cleaned)

\* A ScriptProcessorNode dispatches audioprocess while its context runs and it
\* has a connected input; some platforms also want its output to reach the
\* destination (`needsOutput`).
CanFire(c, needsOutput) ==
    /\ c.processor
    /\ c.audioContext
    /\ "connectSource" \in c.links
    /\ needsOutput => {"connectProcessor", "connectGain"} \subseteq c.links

\* ---------------------------------------------------------------- PCM codec

\* A sample is a float: NaN, or the number num / Den.
Den == 4096

\* s * 0x8000 and s * 0x7FFF in float32ToInt16.
FullScaleNeg == 32768
FullScalePos == 32767

\* The samples tried: inside, on and outside [-1, 1], and NaN.
SampleNums ==
    {-2 * Den, -Den - 1, -Den, -Den + 1, -1, 0, 1, Den \div 2, Den - 1, Den, Den + 1, 2 * Den}

Samples ==
    {[nan |-> FALSE, num |-> n] : n \in SampleNums} \cup {[nan |-> TRUE, num |-> 0]}

SampleFrames == UNION {[1..n -> Samples] : n \in 0..MaxSamples}

\* The byte values tried, and the buffers made of them.
Bytes == {0, 1, 127, 128, 255}

ByteBuffers == UNION {[1..n -> Bytes] : n \in 0..MaxBytes}

Min(a, b) == IF a < b THEN a ELSE b

\* Math.max(-1, Math.min(1, x)) on the numerator.
ClampNone(n) == n
Clamp(n) == Max(-Den, Min(Den, n))

\* The integer part of a / b (b > 0), toward zero, as a typed array takes it.
TruncDiv(a, b) == IF a >= 0 THEN a \div b ELSE -((-a) \div b)

\* What an Int16Array element keeps of an integer: its value modulo 2^16, signed.
ToInt16(x) == ((x + 32768) % 65536) - 32768

\* The integer part of `s < 0 ? s * 0x8000 : s * 0x7FFF` for the clamped
\* sample; NaN stays NaN through the clamp and the product and is stored as 0.
Scaled(s) ==
    IF s.nan THEN 0
    ELSE LET c == Clamp(s.num)
         IN TruncDiv(IF c < 0 THEN c * FullScaleNeg ELSE c * FullScalePos, Den)

float32ToInt16(float32) == [i \in DOMAIN float32 |-> ToInt16(Scaled(float32[i]))]

\* The bytes of an Int16Array's buffer, little-endian.
RECURSIVE BufferOf(_)
BufferOf(int16) ==
    IF Len(int16) = 0 THEN <<>>
    ELSE LET u == int16[1] % 65536
         IN <<u % 256, u \div 256>> \o BufferOf(Tail(int16))

\* String.fromCharCode(n): the code unit n modulo 2^16.
FromCharCodeAscii(n) == n % 128
FromCharCode(n) == n % 65536

\* btoa on a string of code units 0..255: three units make four characters of
\* the 64-letter alphabet (0..63 here), the last group is padded with "=" (64).
RECURSIVE Btoa(_)
Btoa(binary) ==
    IF Len(binary) = 0 THEN <<>>
    ELSE IF Len(binary) = 1
    THEN <<binary[1] \div 4, (binary[1] % 4) * 16, 64, 64>>
    ELSE IF Len(binary) = 2
    THEN <<binary[1] \div 4,
           (binary[1] % 4) * 16 + binary[2] \div 16,
           (binary[2] % 16) * 4,
           64>>
    ELSE <<binary[1] \div 4,
           (binary[1] % 4) * 16 + binary[2] \div 16,
           (binary[2] % 16) * 4 + binary[3] \div 64,
           binary[3] % 64>> \o Btoa(SubSeq(binary, 4, Len(binary)))

\* atob: four characters make three code units, fewer before padding.
RECURSIVE Atob(_)
Atob(text) ==
    IF Len(text) < 4 THEN <<>>
    ELSE LET first == text[1] * 4 + text[2] \div 16
             second == (text[2] % 16) * 16 + text[3] \div 4
             third == (text[3] % 4) * 64 + text[4]
             rest == SubSeq(text, 5, Len(text))
         IN IF text[3] = 64 THEN <<first>>
            ELSE IF text[4] = 64 THEN <<first, second>>
            ELSE <<first, second, third>> \o Atob(rest)

\* arrayBufferToBase64: binary += String.fromCharCode(bytes[i]); btoa(binary).
arrayBufferToBase64(buffer) == Btoa([i \in DOMAIN buffer |-> FromCharCode(buffer[i])])

\* play(): atob, then bytes[i] = binaryString.charCodeAt(i) into a Uint8Array.
DecodeBase64(text) ==
    LET binaryString == Atob(text)
    IN [i \in DOMAIN binaryString |-> binaryString[i] % 256]

\* Nothing has gone through the codec yet.
CodecInitial ==
    [ op      |-> "none",
      samples |-> <<>>,
      scaled  |-> <<>>,
      int16   |-> <<>>,
      bytes   |-> <<>>,
      text    |-> <<>>,
      decoded |-> <<>> ]

\* ---------------------------------------------------------------- actions

Init ==
    /\ player = PlayerInitial
    /\ now = 0
    /\ raised = "none"
    /\ app = AppInitial
    /\ inbound = NoInbound
    /\ service = ServiceInitial
    /\ capture = CaptureInitial
    /\ codec = CodecInitial

InitPlayer ==
    /\ player' = PlayerInit(player)
    /\ raised' = "none"
    /\ inbound' = NoInbound
    /\ UNCHANGED <<now, app, service, capture, codec>>

Play(duration) ==
    /\ player.created < MaxChunks
    /\ player' = PlayerPlay(player, now, duration)
    /\ raised' = IF PlayRaises(player, duration) THEN "play" ELSE "none"
    /\ inbound' = NoInbound
    /\ UNCHANGED <<now, app, service, capture, codec>>

Stop(legacy) ==
    /\ player' = PlayerStop(player, now, legacy)
    /\ raised' = IF StopRaises(player, now, legacy) THEN "stop" ELSE "none"
    /\ inbound' = NoInbound
    /\ UNCHANGED <<now, app, service, capture, codec>>

OnEnded(id) ==
    /\ CanEnd(player, now, id)
    /\ player' = PlayerOnEnded(player, id)
    /\ raised' = "none"
    /\ inbound' = NoInbound
    /\ UNCHANGED <<now, app, service, capture, codec>>

\* The device clock runs once the context exists.
Tick ==
    /\ player.audioContext = "running"
    /\ now < MaxNow
    /\ now' = now + 1
    /\ raised' = "none"
    /\ inbound' = NoInbound
    /\ UNCHANGED <<player, app, service, capture, codec>>

\* startInterview up to its first await: init(), the "Connecting" prompt, the
\* turn mark. It runs in a click handler, so React renders before the next task.
StartInterview ==
    /\ ~app.started
    /\ player' = PlayerInit(player)
    /\ app' = [AppRender(SetCurrentQuestion(app, [kind |-> "set", text |-> "Connecting"], FALSE))
                 EXCEPT !.started = TRUE, !.isNewTurn = TRUE,
                        !.phase = "interview", !.step = "media",
                        !.closureStream = app.audioStream]
    /\ raised' = "none"
    /\ inbound' = NoInbound
    /\ UNCHANGED <<now, service, capture, codec>>

\* getUserMedia and connect() succeeded: the callbacks are wired, the greeting is shown.
Connected(eager) ==
    /\ app.started /\ ~app.wired
    /\ app' = [SetCurrentQuestion(app, [kind |-> "set", text |-> "Hello"], eager)
                 EXCEPT !.wired = TRUE, !.step = "done", !.isConnected = TRUE,
                        !.audioStream = 1, !.liveStreams = {1}]
    /\ raised' = "none"
    /\ inbound' = NoInbound
    /\ UNCHANGED <<player, now, service, capture, codec>>

Render ==
    /\ app.updates # <<>>
    /\ app' = AppRender(app)
    /\ raised' = "none"
    /\ inbound' = NoInbound
    /\ UNCHANGED <<player, now, service, capture, codec>>

\* The channel delivers one message to onmessage.
OnMessage(m, eager, legacy) ==
    /\ app.wired
    /\ \E r \in {OnMessageResult(player, app, now, m, eager, legacy)} :
          /\ player' = r.state.player
          /\ app' = r.state.app
          /\ inbound' = [msg |-> <<m>>, fired |-> r.fired, left |-> r.left]
    /\ raised' = "none"
    /\ UNCHANGED <<now, service, capture, codec>>

\* The transcript fragments in the displayed text, and in the queued updates.
FragmentsShown == Cardinality({i \in DOMAIN app.currentQuestion :
                                  app.currentQuestion[i] \in Fragments})
FragmentsQueued == Cardinality({i \in DOMAIN app.updates :
                                   app.updates[i].kind = "fragment"})

\* The messages the bounds admit in the current state.
Admitted(m) ==
    /\ AudioData(m) # 0 => player.created < MaxInterviewChunks
    /\ OutputTx(m) # "none" =>
           FragmentsShown + FragmentsQueued < MaxQuestion

\* The choices that make a difference: React's, when a fragment comes with
\* nothing queued; the engine's, when a tracked node has played out.
EagerChoices(m) ==
    IF OutputTx(m) # "none" /\ app.updates = <<>> THEN BOOLEAN ELSE {FALSE}
LegacyChoices ==
    IF \E id \in Range(player.sourceNodes) : HaltRaises(player, now, TRUE, id)
    THEN BOOLEAN ELSE {FALSE}

\* VideoCanvas mounts in the interview phase and hands over its canvas stream.
CanvasReady ==
    /\ app.phase = "interview" /\ ~app.canvasStream
    /\ app' = [app EXCEPT !.canvasStream = TRUE]
    /\ raised' = "none"
    /\ inbound' = NoInbound
    /\ UNCHANGED <<player, now, service, capture, codec>>

\* getUserMedia resolves: startInterview stores the stream and calls connect().
MediaGranted ==
    /\ app.step = "media"
    /\ app' = StreamAcquired(app, 1)
    /\ service' = ServiceConnect(service)
    /\ raised' = "none"
    /\ inbound' = NoInbound
    /\ UNCHANGED <<player, now, capture, codec>>

\* getUserMedia rejects: the catch of startInterview.
MediaDenied ==
    /\ app.step = "media"
    /\ app' = StartFailed(app)
    /\ raised' = "none"
    /\ inbound' = NoInbound
    /\ UNCHANGED <<player, now, service, capture, codec>>

\* The remote accepts: connect() resolves and startInterview goes on.
ConnectResolves ==
    /\ app.step = "connect"
    /\ service.conns[Len(service.conns)].promise = "pending"
    /\ service' = ServiceAccept(service, Len(service.conns))
    /\ app' = ConnectSucceeded(app)
    /\ raised' = "none"
    /\ inbound' = NoInbound
    /\ UNCHANGED <<player, now, capture, codec>>

\* The remote refuses: connect() calls onError and rejects, and the catch of
\* startInterview runs.
ConnectRejects ==
    /\ app.step = "connect"
    /\ service.conns[Len(service.conns)].promise = "pending"
    /\ service' = ServiceReject(service, Len(service.conns))
    /\ app' = StartFailed(OnError(app))
    /\ raised' = "none"
    /\ inbound' = NoInbound
    /\ UNCHANGED <<player, now, capture, codec>>

\* The End Session button, shown throughout the interview phase.
EndInterview(legacy) ==
    /\ app.phase = "interview"
    /\ app' = AppEnd(app)
    /\ player' = PlayerStop(player, now, legacy)
    /\ service' = ServiceDisconnect(service)
    /\ raised' = IF StopRaises(player, now, legacy) THEN "stop" ELSE "none"
    /\ inbound' = NoInbound
    /\ UNCHANGED <<now, capture, codec>>

Connect ==
    /\ Len(service.conns) < MaxConnects
    /\ service' = ServiceConnect(service)
    /\ UNCHANGED <<player, now, raised, app, inbound, capture, codec>>

Accept(c) ==
    /\ c \in DOMAIN service.conns
    /\ service.conns[c].promise = "pending"
    /\ service' = ServiceAccept(service, c)
    /\ UNCHANGED <<player, now, raised, app, inbound, capture, codec>>

Reject(c) ==
    /\ c \in DOMAIN service.conns
    /\ service.conns[c].promise = "pending"
    /\ service' = ServiceReject(service, c)
    /\ UNCHANGED <<player, now, raised, app, inbound, capture, codec>>

RemoteClose(c) ==
    /\ c \in Live(service)
    /\ service' = ServiceRemoteClose(service, c)
    /\ UNCHANGED <<player, now, raised, app, inbound, capture, codec>>

RemoteError(c) ==
    /\ c \in Live(service)
    /\ service.conns[c].errors < MaxErrors
    /\ service' = ServiceRemoteError(service, c)
    /\ UNCHANGED <<player, now, raised, app, inbound, capture, codec>>

Inbound(c) ==
    /\ c \in Live(service)
    /\ service' = ServiceInbound(service, c)
    /\ UNCHANGED <<player, now, raised, app, inbound, capture, codec>>

Disconnect ==
    /\ service' = ServiceDisconnect(service)
    /\ UNCHANGED <<player, now, raised, app, inbound, capture, codec>>

SendAudioChunk ==
    /\ Len(service.calls) < MaxCalls
    /\ service' = ServiceSend(service)
    /\ UNCHANGED <<player, now, raised, app, inbound, capture, codec>>

SendResume(k, fails) ==
    /\ CanResume(service, k)
    /\ service' = ServiceResume(service, k, fails)
    /\ UNCHANGED <<player, now, raised, app, inbound, capture, codec>>

\* A render with new props: React runs the effect when isActive or the
\* identity of stream changed. A new stream object arrives active.
SetProps(isActive, stream, failAt) ==
    /\ isActive # capture.isActive \/ stream # capture.stream
    /\ Armed([capture EXCEPT !.isActive = isActive, !.stream = stream,
                             !.streamActive = IF stream = capture.stream THEN @ ELSE stream # 0])
          \/ failAt = "none"
    /\ capture' = CaptureEffect(
                     [capture EXCEPT !.isActive = isActive, !.stream = stream,
                                     !.streamActive = IF stream = capture.stream THEN @
                                                      ELSE stream # 0],
                     failAt)
    /\ UNCHANGED <<player, now, raised, app, inbound, service, codec>>

\* The tracks of the stream end (device lost, or stopped by their owner): the
\* same object is now inactive, and no prop of the hook changed.
StreamEnds ==
    /\ capture.stream # 0
    /\ capture.streamActive
    /\ capture' = [capture EXCEPT !.streamActive = FALSE]
    /\ UNCHANGED <<player, now, raised, app, inbound, service, codec>>

\* The mute button: setIsMicOn(!isMicOn). App renders and hands the hook a new
\* handleAudioData; neither isActive nor stream changed, so no effect runs.
ToggleMic ==
    /\ capture' = [capture EXCEPT !.isMicOn = ~@]
    /\ UNCHANGED <<player, now, raised, app, inbound, service, codec>>

\* onaudioprocess: one frame is encoded and handed to onAudioData.
AudioProcess(needsOutput) ==
    /\ CanFire(capture, needsOutput)
    /\ capture.frames < MaxFrames
    /\ capture' = [capture EXCEPT !.frames = @ + 1,
                                   !.lastFrame = HandleAudioData(capture.handlerMicOn),
                                   !.micAtFrame = capture.isMicOn]
    /\ UNCHANGED <<player, now, raised, app, inbound, service, codec>>

\* The codec steps of onaudioprocess: float32ToInt16(inputData), then
\* arrayBufferToBase64(pcmInt16.buffer). The functions are pure: a behaviour
\* follows one input through them.
EncodeFrame(inputData) ==
    /\ codec.op = "none"
    /\ codec' = [ op      |-> "frame",
                  samples |-> inputData,
                  scaled  |-> [i \in DOMAIN inputData |-> Scaled(inputData[i])],
                  int16   |-> float32ToInt16(inputData),
                  bytes   |-> BufferOf(float32ToInt16(inputData)),
                  text    |-> arrayBufferToBase64(BufferOf(float32ToInt16(inputData))),
                  decoded |-> <<>> ]
    /\ UNCHANGED <<player, now, raised, app, inbound, service, capture>>

\* arrayBufferToBase64 on any buffer.
ToTransportText(buffer) ==
    /\ codec.op = "none"
    /\ codec' = [CodecInitial EXCEPT !.op = "text",
                                     !.bytes = buffer,
                                     !.text = arrayBufferToBase64(buffer)]
    /\ UNCHANGED <<player, now, raised, app, inbound, service, capture>>

\* The decoding at the head of play(), on the text last produced.
FromTransportText ==
    /\ codec.op \in {"frame", "text"}
    /\ codec' = [codec EXCEPT !.op = "decoded", !.decoded = DecodeBase64(codec.text)]
    /\ UNCHANGED <<player, now, raised, app, inbound, service, capture>>

\* The playback scheduler on its own: the hook's operations, the device's
\* `ended` events and its clock.
Next ==
    \/ InitPlayer
    \/ \E duration \in Durations : Play(duration)
    \/ \E legacy \in LegacyChoices : Stop(legacy)
    \/ \E id \in 1..MaxChunks : OnEnded(id)
    \/ Tick

Spec == Init /\ [][Next]_vars

\* The interview: the session's inbound messages drive the scheduler and the
\* transcript through the callbacks App wired.
InterviewNext ==
    \/ StartInterview
    \/ \E eager \in BOOLEAN : Connected(eager)
    \/ Render
    \/ \E m \in Messages : \E eager \in EagerChoices(m), legacy \in LegacyChoices :
          Admitted(m) /\ OnMessage(m, eager, legacy)
    \/ \E id \in 1..MaxChunks : OnEnded(id)
    \/ now < MaxInterviewNow /\ Tick

InterviewSpec == Init /\ [][InterviewNext]_vars

\* The interview from start to end: startInterview's awaits, endInterview, and
\* the messages of a channel that is still live. No turn ends and no time
\* passes here.
LifecycleMessages ==
    {m \in Messages : ~m.turnComplete /\ ~m.interrupted /\ (OutputTx(m) # "none" \/ AudioData(m) # 0)}

LifecycleNext ==
    \/ StartInterview
    \/ CanvasReady
    \/ MediaGranted
    \/ MediaDenied
    \/ ConnectResolves
    \/ ConnectRejects
    \/ \E legacy \in LegacyChoices : EndInterview(legacy)
    \/ Render
    \/ \E m \in LifecycleMessages : \E eager \in EagerChoices(m) :
          /\ Live(service) # {}
          /\ AudioData(m) # 0 => player.created < MaxLifecycleChunks
          /\ OutputTx(m) # "none" => FragmentsShown + FragmentsQueued < MaxQuestion
          /\ OnMessage(m, eager, FALSE)

LifecycleSpec == Init /\ [][LifecycleNext]_vars

\* The transcript on its own: messages that carry no audio.
TranscriptMessages == {m \in Messages : m.parts = <<>>}

TranscriptNext ==
    \/ StartInterview
    \/ \E eager \in BOOLEAN : Connected(eager)
    \/ Render
    \/ \E m \in TranscriptMessages : \E eager \in EagerChoices(m) :
          /\ OutputTx(m) # "none" =>
                /\ FragmentsShown + FragmentsQueued < MaxTranscript
                /\ Len(app.turn) < MaxTranscript
          /\ OnMessage(m, eager, FALSE)

TranscriptSpec == Init /\ [][TranscriptNext]_vars

\* The session service on its own: connect(), disconnect(), sendAudioChunk()
\* and what the remote end and the transport do.
SessionNext ==
    \/ Connect
    \/ \E c \in 1..MaxConnects : Accept(c)
    \/ \E c \in 1..MaxConnects : Reject(c)
    \/ \E c \in 1..MaxConnects : RemoteClose(c)
    \/ Disconnect
    \/ SendAudioChunk
    \/ \E k \in 1..MaxCalls, fails \in BOOLEAN : SendResume(k, fails)

SessionSpec == Init /\ [][SessionNext]_vars

\* The channels of one service instance: what connect() and disconnect() open
\* and leave open, and what the remote end does on them.
ChannelNext ==
    \/ Len(service.conns) < MaxChannelConnects /\ Connect
    \/ \E c \in 1..MaxChannelConnects : Accept(c)
    \/ \E c \in 1..MaxChannelConnects : Reject(c)
    \/ \E c \in 1..MaxChannelConnects : RemoteError(c)
    \/ \E c \in 1..MaxChannelConnects : Inbound(c)
    \/ \E c \in 1..MaxChannelConnects : RemoteClose(c)
    \/ Disconnect
    \/ Len(service.calls) < MaxChannelCalls /\ SendAudioChunk
    \/ \E k \in 1..MaxChannelCalls, fails \in BOOLEAN : SendResume(k, fails)

ChannelSpec == Init /\ [][ChannelNext]_vars

\* The capture hook on its own: its props change, the stream ends, the graph
\* delivers frames.
CaptureNext ==
    \/ \E isActive \in BOOLEAN, stream \in 0..2, failAt \in FailPoints :
          SetProps(isActive, stream, failAt)
    \/ StreamEnds
    \/ ToggleMic
    \/ \E needsOutput \in BOOLEAN : AudioProcess(needsOutput)

CaptureSpec == Init /\ [][CaptureNext]_vars

\* The codec on its own: frames of samples and byte buffers go through it.
CodecNext ==
    \/ \E inputData \in SampleFrames : EncodeFrame(inputData)
    \/ \E buffer \in ByteBuffers : ToTransportText(buffer)
    \/ FromTransportText

CodecSpec == Init /\ [][CodecNext]_vars

\* ---------------------------------------------------------------- claims: playback scheduler

\* The scheduler after play() was called for each [at, duration] of `calls` in turn.
RECURSIVE RunPlays(_, _)
RunPlays(p, calls) ==
    IF calls = <<>> THEN p
    ELSE RunPlays(PlayerPlay(p, Head(calls).at, Head(calls).duration), Tail(calls))

\* The start times of the units created so far (none has ended in a RunPlays).
Starts(p) == [i \in 1..p.created |-> p.sources[i].start]

\* The step scheduled a chunk.
Scheduled == player'.created = player.created + 1

\* The unit the step scheduled.
NewUnit == player'.sources[player'.created]

\* Some stop() call is this step.
IsStop == \E legacy \in BOOLEAN : Stop(legacy)

\* C1, instances: durations [0.5, 0.3, 0.7] s all arriving at t = 0 start at
\* [0, 0.5, 0.8] s and leave the cursor at 1.5 s; three 1 s chunks arriving
\* 200 ms apart, from any t0, start at [t0, t0 + 1, t0 + 2] s: 3 s scheduled
\* back to back, no recovery gap.
C1Instances ==
    /\ LET p == RunPlays(PlayerInit(PlayerInitial),
                         << [at |-> 0, duration |-> 5], [at |-> 0, duration |-> 3],
                            [at |-> 0, duration |-> 7] >>)
       IN Starts(p) = <<0, 5, 8>> /\ p.nextStartTime = 15
    /\ \A t0 \in 0..MaxNow :
         LET p == RunPlays(PlayerInit(PlayerInitial),
                           << [at |-> t0, duration |-> 10], [at |-> t0 + 2, duration |-> 10],
                              [at |-> t0 + 4, duration |-> 10] >>)
         IN Starts(p) = <<t0, t0 + 10, t0 + 20>> /\ p.nextStartTime = t0 + 30

\* C1: with no stop() since the previous play(), a chunk is scheduled to start
\* at or after the nominal end (start + duration) of the previous chunk, and
\* exactly at that end when it arrived at or before it; and the two instances
\* of the claim come out as stated.
C1NoOverlapNoGap ==
    [][ /\ (Scheduled /\ player.lastEnd >= 0) =>
              /\ NewUnit.start >= player.lastEnd
              /\ now <= player.lastEnd => NewUnit.start = player.lastEnd
        /\ C1Instances ]_vars

\* C1 witness: three units scheduled with no stop() in between and none ended
\* yet; the second arrived late and starts after a gap, the third starts
\* exactly at the second's nominal end.
C1Witness ==
    /\ DOMAIN player.sources = {1, 2, 3}
    /\ player.sources[2].cont /\ player.sources[3].cont
    /\ player.sources[2].start > player.sources[1].start + player.sources[1].duration
    /\ player.sources[3].start = player.sources[2].start + player.sources[2].duration

\* C2: every play() of a non-empty chunk on an initialised scheduler schedules
\* the chunk at max(cursor, device now) and leaves the cursor at that start
\* plus the chunk's duration; a chunk arriving at 2.0 s after a chunk whose
\* nominal end was 0.5 s starts at 2.0 s.
C2LateArrivalRecovery ==
    [][ /\ \A d \in Durations \ {0} :
              (player.audioContext # "none" /\ Play(d)) =>
                  /\ Scheduled
                  /\ NewUnit.start = Max(player.nextStartTime, now)
                  /\ NewUnit.duration = d
                  /\ player'.nextStartTime = NewUnit.start + d
        /\ LET p == RunPlays(PlayerInit(PlayerInitial),
                             << [at |-> 0, duration |-> 5], [at |-> 20, duration |-> 3] >>)
           IN Starts(p) = <<0, 20>> /\ p.nextStartTime = 23 ]_vars

\* C2 witness: the unit scheduled last arrived after the cursor had fallen
\* behind the clock: it starts at the device time of its arrival, after the
\* nominal end of the unit before it.
C2Witness ==
    /\ {1, 2} \subseteq DOMAIN player.sources
    /\ player.created = 2
    /\ player.sources[2].cont
    /\ player.sources[2].start = now
    /\ player.sources[2].start > player.sources[1].start + player.sources[1].duration
    /\ player.nextStartTime = now + player.sources[2].duration

\* C3 as stated: over init(), play(), stop(), completions and clock advances
\* the virtual cursor never decreases.
C3CursorNeverDecreases ==
    [][player'.nextStartTime >= player.nextStartTime]_vars

\* C3 as amended: the cursor decreases only in a stop(), which sets it to the
\* device clock; every other change is a play() moving it forward to
\* max(cursor, now) plus the chunk's duration.
C3CursorMonotoneExceptStop ==
    [][ /\ player'.nextStartTime < player.nextStartTime =>
              IsStop /\ player'.nextStartTime = now
        /\ (player'.nextStartTime # player.nextStartTime /\ ~IsStop) =>
              /\ Scheduled
              /\ player'.nextStartTime =
                    Max(player.nextStartTime, now) + NewUnit.duration
              /\ NewUnit.duration > 0 ]_vars

\* C3 witness: stop() has just pulled the cursor back to the device clock: a
\* unit it halted was scheduled to end later than now.
C3Witness ==
    /\ player.lastEnd = -1
    /\ player.nextStartTime = now
    /\ \E i \in DOMAIN player.sources :
          /\ player.sources[i].halted
          /\ player.sources[i].start + player.sources[i].duration > now

\* C4: stop(), in any scheduler state, raises no error and leaves the tracked
\* set empty, the playback-active flag false and, when the output device
\* exists, the cursor at the device clock; every tracked unit is halted; a
\* second stop() at the same device time changes nothing.
C4StopSafe ==
    [][ \A legacy \in BOOLEAN : Stop(legacy) =>
           /\ raised' = "none"
           /\ player'.sourceNodes = <<>>
           /\ ~player'.isPlaying
           /\ player.audioContext # "none" => player'.nextStartTime = now
           /\ \A id \in Range(player.sourceNodes) : player'.sources[id].halted
           /\ \A again \in BOOLEAN :
                 /\ PlayerStop(player', now', again) = player'
                 /\ ~StopRaises(player', now', again) ]_vars

\* C4 witness: stop() has run on a scheduler holding a unit that had played
\* out, a unit that was playing and a unit that had not started.
C4Witness ==
    /\ player.sourceNodes = <<>> /\ ~player.isPlaying
    /\ player.nextStartTime = now /\ raised = "none"
    /\ \E i, j, k \in DOMAIN player.sources :
          /\ player.sources[i].halted /\ player.sources[j].halted
          /\ player.sources[k].halted
          /\ player.sources[i].start + player.sources[i].duration <= now
          /\ player.sources[j].start <= now
          /\ now < player.sources[j].start + player.sources[j].duration
          /\ now < player.sources[k].start

\* C5: the playback-active flag is true exactly when a unit is tracked, and
\* it goes false only in a stop() or in the completion that leaves no unit
\* tracked.
C5ActiveIffTracked ==
    /\ [](player.isPlaying <=> player.sourceNodes # <<>>)
    /\ [][ (player.isPlaying /\ ~player'.isPlaying) =>
              \/ IsStop
              \/ \E id \in 1..MaxChunks :
                    OnEnded(id) /\ player'.sourceNodes = <<>> ]_vars

\* C5 witness: two units were scheduled, both completed with no stop() since,
\* and the flag is false again.
C5Witness ==
    /\ player.created >= 2
    /\ player.lastEnd >= 0
    /\ DOMAIN player.sources = {}
    /\ player.sourceNodes = <<>>
    /\ ~player.isPlaying

\* ---------------------------------------------------------------- claims: inbound messages

\* The order the message contract gives the three callbacks.
ContractOrder == <<"onTranscription", "onTurnEnd", "onAudioData">>

\* The place of a callback in that order.
Place(cb) == CHOOSE i \in DOMAIN ContractOrder : ContractOrder[i] = cb

\* How often the last message fired the callback.
Fired(cb) == Cardinality({i \in DOMAIN inbound.fired : inbound.fired[i] = cb})

\* C6: the callbacks one message fires come in the order transcript fragment,
\* turn end, audio chunk, each at most once; a message with a fragment and
\* turnComplete fires the fragment callback, then the turn-end callback, once
\* each; a message with turnComplete and interrupted fires onTurnEnd once.
C6CallbackOrder ==
    inbound.msg # <<>> =>
        LET m == inbound.msg[1]
            f == inbound.fired
        IN /\ \A i, j \in DOMAIN f : i < j => Place(f[i]) < Place(f[j])
           /\ (m.text # "none" /\ m.turnComplete) =>
                 /\ Len(f) >= 2
                 /\ f[1] = "onTranscription" /\ f[2] = "onTurnEnd"
                 /\ Fired("onTranscription") = 1 /\ Fired("onTurnEnd") = 1
           /\ (m.turnComplete /\ m.interrupted) => Fired("onTurnEnd") = 1

\* C6 witness: a message carrying a fragment, both turn-boundary flags and
\* audio has fired the three callbacks in order.
C6Witness ==
    /\ inbound.msg # <<>>
    /\ inbound.msg[1].text # "none"
    /\ inbound.msg[1].turnComplete /\ inbound.msg[1].interrupted
    /\ inbound.fired = ContractOrder

\* C7: for every message, onTranscription fires iff it carries a transcript
\* delta, onTurnEnd iff turnComplete or interrupted is set, and onAudioData
\* iff some part of its model turn carries an inline audio payload.
C7AllApplicableFire ==
    inbound.msg # <<>> =>
        LET m == inbound.msg[1]
        IN /\ Fired("onTranscription") > 0 <=> m.text # "none"
           /\ Fired("onTurnEnd") > 0 <=> (m.turnComplete \/ m.interrupted)
           /\ Fired("onAudioData") > 0 <=> \E i \in DOMAIN m.parts : m.parts[i] > 0

\* C8: whenever a message carries a turn-boundary flag, onTurnEnd runs, and it
\* leaves every unit that was tracked halted, the tracked set empty, the
\* playback-active flag false, the cursor at the device clock and the next
\* fragment marked as the start of a new turn.
C8TurnEndFlushes ==
    inbound.msg # <<>> =>
        /\ (inbound.msg[1].turnComplete \/ inbound.msg[1].interrupted)
              <=> inbound.left # <<>>
        /\ inbound.left # <<>> =>
              /\ inbound.left[1].missed = {}
              /\ inbound.left[1].sourceNodes = <<>>
              /\ ~inbound.left[1].isPlaying
              /\ inbound.left[1].nextStartTime = now
              /\ inbound.left[1].isNewTurn

\* C8 witness: onTurnEnd ran in the middle of a turn (the turn mark was
\* cleared) and halted a unit that was playing and a unit not yet started.
C8Witness ==
    /\ inbound.left # <<>>
    /\ ~inbound.left[1].wasNewTurn
    /\ {"pending", "playing"} \subseteq inbound.left[1].halted

\* ---------------------------------------------------------------- claims: outbound frames

\* C9: a sendAudioChunk call made when no channel is open (before connect,
\* while connect is pending, after a failed connect, after disconnect(), after
\* the remote closed) transmits nothing, neither at once nor later: every
\* frame on the wire comes from a call made with the channel open.
C9NoOpWithoutChannel ==
    \A i \in DOMAIN service.wire : service.calls[service.wire[i]].at = "open"

\* C10: the promise sendAudioChunk returns resolves in every session state,
\* also when the awaited connect failed or the transport send fails; a frame
\* whose send failed is not on the wire, and no frame is on the wire twice.
C10SendNeverThrows ==
    /\ \A k \in DOMAIN service.calls :
          /\ service.calls[k].outcome # "rejected"
          /\ service.calls[k].state = "returned" => service.calls[k].outcome = "resolved"
          /\ service.calls[k].threw => \A i \in DOMAIN service.wire : service.wire[i] # k
    /\ \A i, j \in DOMAIN service.wire : service.wire[i] = service.wire[j] => i = j

\* C10 witness: a call made on the open channel whose transport send failed,
\* and a call that waited for a connect that failed, have both returned.
C10Witness ==
    \E k, j \in DOMAIN service.calls :
        /\ service.calls[k].at = "open" /\ service.calls[k].threw
        /\ service.calls[k].state = "returned"
        /\ service.calls[j].at = "connecting" /\ service.calls[j].threw
        /\ service.calls[j].state = "returned"

\* ---------------------------------------------------------------- claims: session channel

\* C11: connect() settles one of two ways. It has resolved only if the remote
\* accepted the channel; it has rejected only if the channel was refused and
\* onError ran; once the remote has answered, connect() is no longer pending.
C11ConnectSettles ==
    \A c \in DOMAIN service.conns :
        LET conn == service.conns[c]
        IN /\ conn.result = "resolved" => conn.channel \in {"open", "closed"}
           /\ conn.result = "rejected" => conn.channel = "failed" /\ conn.errors >= 1
           /\ conn.promise # "pending" => conn.result # "pending"

\* C11 witness: one connect() has resolved on an accepted channel and another
\* has rejected after its onError ran.
C11Witness ==
    \E c, d \in DOMAIN service.conns :
        /\ service.conns[c].result = "resolved" /\ service.conns[c].channel = "open"
        /\ service.conns[d].result = "rejected" /\ service.conns[d].errors = 1

\* C12: for any sequence of connect() and disconnect() calls on one service
\* instance, at most one channel is live at any time.
C12OneChannelLive ==
    Cardinality(Live(service)) <= 1

\* C13: disconnect() is idempotent. In every session state it is defined and
\* releases the handle; a second disconnect() changes nothing; a sendAudioChunk
\* call made after it returns at once, resolved, and puts nothing on the wire,
\* now or later.
C13DisconnectIdempotent ==
    LET d == ServiceDisconnect(service)
        n == Len(d.calls) + 1
    IN /\ d.sessionPromise = 0
       /\ SessionState(d) = "disconnected"
       /\ ServiceDisconnect(d) = d
       /\ ServiceSend(d).wire = d.wire
       /\ ServiceSend(d).calls[n].state = "returned"
       /\ ServiceSend(d).calls[n].outcome = "resolved"
       /\ ~CanResume(ServiceSend(d), n)
       /\ \A k \in DOMAIN service.calls :
             service.calls[k].at = "disconnected" =>
                 /\ service.calls[k].state = "returned"
                 /\ service.calls[k].outcome = "resolved"
                 /\ \A i \in DOMAIN service.wire : service.wire[i] # k

\* C13 witness: disconnect() ran while the remote still holds the channel
\* open, and a sendAudioChunk call was made after it.
C13Witness ==
    /\ service.released
    /\ Live(service) # {}
    /\ \E k \in DOMAIN service.calls : service.calls[k].at = "disconnected"

\* C14: an onerror event on an open channel runs onError and changes nothing
\* else: the channel stays open and the handle stays; on a channel that has
\* seen an error and is still open, inbound messages are still handled and a
\* sendAudioChunk call whose send does not fail still puts its frame on the wire.
C14RemoteErrorKeepsOpen ==
    [][ \A c \in Live(service) :
          /\ service'.conns[c].errors > service.conns[c].errors =>
                /\ service'.conns[c].channel = "open"
                /\ service'.conns[c].errors = service.conns[c].errors + 1
                /\ service'.sessionPromise = service.sessionPromise
                /\ service'.calls = service.calls
                /\ service'.wire = service.wire
          /\ service.conns[c].errors > 0 =>
                /\ ENABLED Inbound(c)
                /\ \A k \in DOMAIN service.calls :
                      ( /\ service.calls[k].awaits = c
                        /\ service.calls[k].state = "waiting"
                        /\ service'.calls[k].state = "returned"
                        /\ ~service'.calls[k].threw )
                      => service'.wire = Append(service.wire, k)
      ]_vars

\* C14 witness: on a channel that has seen an error and is still open, an
\* inbound message was handled and a frame submitted after the error went out.
C14Witness ==
    \E c \in Live(service) :
        /\ service.conns[c].errors > 0
        /\ service.conns[c].heardAfterError
        /\ \E i \in DOMAIN service.wire :
              /\ service.calls[service.wire[i]].awaits = c
              /\ service.calls[service.wire[i]].afterError

\* C15: the frames on one channel went out in the order of their
\* sendAudioChunk calls, each once, also when the calls were waiting for the
\* channel handle at the same time.
C15OutboundOrder ==
    \A i, j \in DOMAIN service.wire :
        /\ service.wire[i] = service.wire[j] => i = j
        /\ ( /\ i < j
             /\ service.calls[service.wire[i]].awaits = service.calls[service.wire[j]].awaits )
           => service.wire[i] < service.wire[j]

\* C15 witness: three calls made while connect() was pending, all waiting for
\* the same handle, have all put their frame on the wire.
C15Witness ==
    /\ Len(service.wire) = 3
    /\ \A i \in DOMAIN service.wire : service.calls[service.wire[i]].at = "connecting"
    /\ \A i, j \in DOMAIN service.wire :
          service.calls[service.wire[i]].awaits = service.calls[service.wire[j]].awaits

\* ---------------------------------------------------------------- claims: capture pipeline

\* C16: capture stop() is idempotent and complete. From every state of the
\* hook (nothing built, a graph built, a start() that threw part-way) stop()
\* leaves no ref holding a node, no connection and no open context, and a
\* second stop() changes none of that; the two stop() calls of an effect that
\* finds the hook not armed leave the hook so.
C16StopIdempotent ==
    LET t  == CaptureStop(capture)
        tt == CaptureStop(t)
    IN /\ Found(t) = "nothing" /\ t.links = {} /\ t.contexts = 0
       /\ Found(tt) = "nothing" /\ tt.links = {} /\ tt.contexts = 0
       /\ ~CanFire(t, FALSE)
       /\ Len(capture.stops) = 2 =>
             /\ capture.stops[2] = "nothing"
             /\ Found(capture) = "nothing" /\ capture.links = {} /\ capture.contexts = 0

\* C16 witness: stop() ran on what a start() that threw part-way left behind,
\* then ran again, and nothing is held.
C16Witness ==
    /\ capture.stops = <<"partial", "nothing">>
    /\ Found(capture) = "nothing"
    /\ capture.contexts = 0

\* C17: a capture graph exists, and can deliver a frame, only while the
\* active flag is true and the stream is present and active.
C17ActiveOnlyWhileArmed ==
    (Found(capture) # "nothing" \/ CanFire(capture, FALSE)) => Armed(capture)

\* C18: a start() in which a step threw settles without raising to its caller
\* and delivers no frame.
C18FailedStartStaysInactive ==
    capture.built \notin {"idle", "none"} =>
        /\ capture.startOutcome = "resolved"
        /\ capture.frames = 0

\* ---------------------------------------------------------------- claims: codec

\* C19: decoding the transport text made from a byte buffer gives back
\* exactly that buffer, for every buffer, the empty one and those whose length
\* is not a multiple of 3 included.
C19TransportRoundTrip ==
    codec.op = "decoded" => codec.decoded = codec.bytes

\* C19 witness: a buffer of four bytes, 0 and 255 among them, was encoded and
\* decoded.
C19Witness ==
    /\ codec.op = "decoded"
    /\ Len(codec.bytes) = 4
    /\ {0, 255} \subseteq Range(codec.bytes)
    /\ codec.text[Len(codec.text)] = 64

\* C20: every sample, inside or outside [-1, 1], is stored as the integer
\* float32ToInt16 computed for it, which lies in -32768..32767: nothing wraps
\* modulo 2^16. Samples at or below -1 give -32768, at or above 1 give 32767.
C20EncodeRange ==
    \A i \in DOMAIN codec.int16 :
        /\ codec.int16[i] \in -32768..32767
        /\ codec.int16[i] = codec.scaled[i]
        /\ ~codec.samples[i].nan /\ codec.samples[i].num <= -Den => codec.int16[i] = -32768
        /\ ~codec.samples[i].nan /\ codec.samples[i].num >= Den => codec.int16[i] = 32767

\* C20 witness: a frame with a sample above 1 and the sample -1 was encoded.
C20Witness ==
    /\ codec.op = "frame"
    /\ \E i, j \in DOMAIN codec.samples :
          /\ codec.samples[i].num > Den /\ codec.int16[i] = 32767
          /\ codec.samples[j].num = -Den /\ codec.int16[j] = -32768

\* The integer nearest to a / b (b > 0).
Nearest(a, b) ==
    IF a >= 0 THEN (2 * a + b) \div (2 * b) ELSE -((2 * (-a) + b) \div (2 * b))

\* C21: every sample is clamped to [-1, 1] and encoded as the integer nearest
\* to s * 32768 when s < 0 and to s * 32767 otherwise.
C21EncodeRounds ==
    \A i \in DOMAIN codec.int16 :
        ~codec.samples[i].nan =>
            LET c == Max(-Den, Min(Den, codec.samples[i].num))
            IN codec.int16[i] =
                  Nearest(IF c < 0 THEN c * 32768 ELSE c * 32767, Den)

\* ---------------------------------------------------------------- claims: orchestrator

\* C22: once React has applied every queued update and at least one fragment
\* has arrived since the last turn-end signal, the text displayed is the
\* in-order concatenation of exactly the fragments received since that signal.
C22TranscriptPerTurn ==
    (app.wired /\ app.updates = <<>> /\ app.turn # <<>>) =>
        app.currentQuestion = app.turn

\* C23: a captured frame is passed to sendAudioChunk if and only if the
\* microphone toggle is on when the frame is delivered.
C23MicGating ==
    capture.lastFrame # "none" =>
        (capture.lastFrame = "sent" <=> capture.micAtFrame)

\* C24: after a start that acquired the microphone stream and then failed
\* because connect() rejected, no acquired stream has live tracks and no stream
\* is stored.
C24CleanupAfterFailure ==
    app.step = "failed" => app.liveStreams = {} /\ app.audioStream = 0

\* C25: after endInterview ended a connected session, no playback unit is
\* tracked and playback is not active, whatever the channel still delivers.
C25NoPlaybackAfterEnd ==
    (app.phase = "review" /\ app.endedAt = "done") =>
        player.sourceNodes = <<>> /\ ~player.isPlaying

\* C26: after endInterview ran while connect() was pending, the connected
\* flag is false, the phase is 'review', no recording runs and the service
\* holds no channel handle, also once that connect() has settled.
C26EndWhileConnecting ==
    app.endedAt = "connect" =>
        /\ ~app.isConnected
        /\ app.phase = "review"
        /\ app.recording # "recording"
        /\ service.sessionPromise = 0

\* C27: while disconnect() has run and no connect() was called since, no
\* step puts a frame on a channel, not even the resumption of a sendAudioChunk
\* call that began to wait for the handle before disconnect().
C27NoSendAfterDisconnect ==
    [][(service.released /\ service.sessionPromise = 0) => service'.wire = service.wire]_vars

====
